---- MODULE Spec2Model ----
(***************************************************************************)
(* Weather widget: forecast day alignment (the resolver part of            *)
(* buildForecastCards), the memoised rebuild of the forecast cards, the     *)
(* icon of a condition code, the location chain of detectLocation, the     *)
(* life cycle of the cloud animation layer (initClouds), fetchWithRetries   *)
(* attempt by attempt and the refreshes started by initWidget.              *)
(*                                                                         *)
(* Instants are seconds since the Unix epoch.  A Date object is a record    *)
(* [valid, t]; an Invalid Date has valid = FALSE.  A string that the code   *)
(* compares with === is a record [kind, y, m, d]: the zero padded fields    *)
(* of "YYYY-MM-DD" make string equality the equality of (y, m, d).          *)
(***************************************************************************)
EXTENDS Integers, Sequences, FiniteSets, TLC

VARIABLES
  now,               \* the instant new Date() returns
  browserOffset,     \* offset of the browser's own zone, seconds east of UTC
  times,             \* dailyData.time of the call
  apiTz,             \* IANA name handed to the call ("" when absent)
  utcOffsetSeconds,  \* utc offset handed to the call (Num(v) or NullNum)
  pc,                \* position in the resolver part of buildForecastCards
  todayStr,          \* the resolved today string
  startIdx,          \* the start index (-1 while unresolved)
  step,              \* the step of the chain that produced startIdx
  daily,             \* the per-day arrays of the call
  container,         \* the forecast container: children and memo fields
  outcome,           \* how the last buildForecastCards call ended
  reads,             \* highest indices read by the last rebuild loop
  ticks,             \* clock advances so far
  targets,           \* several forecast containers, by id
  target,            \* id of the container of the last build (0: none yet)
  iconCode,          \* argument of a weatherCodeToIcon call
  iconIsDay,         \* second argument of the call
  icon,              \* what the call returned ("unset" before it)
  saved,             \* what localStorage holds under weather_widget_location
  geoPresent,        \* 'geolocation' in navigator
  navDone,           \* the done flag of tryNavigator
  navPromise,        \* the promise of tryNavigator
  navFired,          \* callbacks of tryNavigator the browser has invoked
  navSettles,        \* calls of resolve in tryNavigator
  providers,         \* what each IP provider answers, attempt by attempt
  locPc,             \* position in detectLocation
  provIdx,           \* index of the provider the loop is at
  consulted,         \* the sources detectLocation has consulted, in order
  location,          \* what detectLocation returned
  cloudEl,           \* the cloud container element
  instances,         \* the closures of the initClouds calls that built a scene
  cloudArg,          \* argument of the last initClouds call
  cloudRet,          \* what the last initClouds call returned
  cloudCalls,        \* initClouds calls so far
  cloudLog,          \* the arguments of the initClouds calls so far, in order
  rendered,          \* frames rendered so far
  fetchSt,           \* one fetchWithRetries call: its arguments and where it is
  initPc,            \* position in initWidget
  loc,               \* the location detectLocation gave initWidget
  configured,        \* the location of the last weather:config-saved handled
  refreshes,         \* the refreshes started so far, in the order they started
  renderLog,         \* the refreshes renderUI has rendered, in render order
  locationText       \* the text of EL.location

forecastVars == <<now, browserOffset, times, apiTz, utcOffsetSeconds, pc, todayStr,
                  startIdx, step, daily, container, outcome, reads, ticks>>

targetVars == <<targets, target>>

iconVars == <<iconCode, iconIsDay, icon>>

locateVars == <<saved, geoPresent, navDone, navPromise, navFired, navSettles,
                providers, locPc, provIdx, consulted, location>>

cloudVars == <<cloudEl, instances, cloudArg, cloudRet, cloudCalls, cloudLog, rendered>>

fetchVars == <<fetchSt>>

widgetVars == <<initPc, loc, configured, refreshes, renderLog, locationText>>

vars == <<forecastVars, targetVars, iconVars, locateVars, cloudVars, fetchVars, widgetVars>>

(* ------------------------------------------------------------------ *)
(* Bounds                                                             *)
(* ------------------------------------------------------------------ *)
MaxLen == 5

MaxTicks == 1

MaxCode == 100

MaxCloudCalls == 3

MaxInstances == 2

MaxFrames == 2

MaxTries == 4

MaxRefreshes == 2

(* ------------------------------------------------------------------ *)
(* Strings and values                                                 *)
(* ------------------------------------------------------------------ *)
Ymd(y, m, d) == [kind |-> "ymd", y |-> y, m |-> m, d |-> d]

NullStr == [kind |-> "null", y |-> 0, m |-> 0, d |-> 0]

NaNStr == [kind |-> "NaN-NaN-NaN", y |-> 0, m |-> 0, d |-> 0]

EmptyStr == [kind |-> "", y |-> 0, m |-> 0, d |-> 0]

GarbageStr == [kind |-> "n/a", y |-> 0, m |-> 0, d |-> 0]

Undefined == [kind |-> "undefined", y |-> 0, m |-> 0, d |-> 0]

\* JavaScript truthiness of a value that is a string, null or undefined
Truthy(s) == s.kind \notin {"null", "undefined", ""}

DateOf(t) == [valid |-> TRUE, t |-> t]

InvalidDate == [valid |-> FALSE, t |-> 0]

Num(v) == [num |-> TRUE, v |-> v]

NullNum == [num |-> FALSE, v |-> 0]

(* ------------------------------------------------------------------ *)
(* The proleptic Gregorian calendar of the Date object                *)
(* ------------------------------------------------------------------ *)
\* (year, month, day) of the day number z (days since 1970-01-01), by the
\* era / day-of-era / year-of-era decomposition of the Gregorian calendar
CivilOfMonth(y, mp, d) ==
  Ymd(IF mp < 10 THEN y ELSE y + 1, IF mp < 10 THEN mp + 3 ELSE mp - 9, d)

CivilOfDoy(y, doy, mp) == CivilOfMonth(y, mp, doy - (153 * mp + 2) \div 5 + 1)

CivilOfYoe(era, yoe, doy) == CivilOfDoy(yoe + era * 400, doy, (5 * doy + 2) \div 153)

CivilOfDoe(era, doe, yoe) ==
  CivilOfYoe(era, yoe, doe - (365 * yoe + yoe \div 4 - yoe \div 100))

CivilOfEra(era, doe) ==
  CivilOfDoe(era, doe,
             (doe - doe \div 1460 + doe \div 36524 - doe \div 146096) \div 365)

CivilOfShifted(zz, era) == CivilOfEra(era, zz - era * 146097)

CivilFromDays(z) == CivilOfShifted(z + 719468, (z + 719468) \div 146097)

\* day number of the calendar date (y, m, d)
DaysOfDoe(era, doe) == era * 146097 + doe - 719468

DaysOfYoe(era, yoe, doy) == DaysOfDoe(era, yoe * 365 + yoe \div 4 - yoe \div 100 + doy)

DaysOfYear(yy, mm, d) ==
  DaysOfYoe(yy \div 400, yy - (yy \div 400) * 400, (153 * mm + 2) \div 5 + d - 1)

DaysFromCivil(y, m, d) ==
  DaysOfYear(IF m <= 2 THEN y - 1 ELSE y, IF m > 2 THEN m - 3 ELSE m + 9, d)

(* ------------------------------------------------------------------ *)
(* Time zones                                                         *)
(* ------------------------------------------------------------------ *)
\* IANA names the runtime knows, with their offset from UTC in seconds
\* (none of them has a transition in the period modelled)
ZoneOffset(timeZone) ==
  CASE timeZone = "Pacific/Pago_Pago"  -> -11 * 3600
    [] timeZone = "Pacific/Honolulu"   -> -10 * 3600
    [] timeZone = "Etc/UTC"            -> 0
    [] timeZone = "Pacific/Kiritimati" -> 14 * 3600

KnownZones == {"Pacific/Pago_Pago", "Pacific/Honolulu", "Etc/UTC", "Pacific/Kiritimati"}

\* the calendar fields of an instant shifted by an offset
FieldsAt(t, offset) == CivilFromDays((t + offset) \div 86400)

\* getFullYear / getMonth + 1 / getDate, padded and joined with "-";
\* bo is the offset of the browser's zone
LocalYmd(date, bo) ==
  IF date.valid THEN FieldsAt(date.t, bo) ELSE NaNStr

\* Intl.DateTimeFormat('en-CA', {timeZone, ...}).formatToParts(date); the
\* RangeError of an unknown zone or an invalid date is caught: null
yyyyMmDdInZone(date, timeZone) ==
  IF timeZone \in KnownZones /\ date.valid
    THEN FieldsAt(date.t, ZoneOffset(timeZone))
    ELSE NullStr

\* a plausible slip: the shifted instant read with the local getters
yyyyMmDdWithOffset_LocalFields(date, utc_offset_seconds, bo) ==
  IF date.valid THEN FieldsAt(date.t + utc_offset_seconds, bo) ELSE NaNStr

\* bo is the ambient zone of the Date object; the UTC getters do not consult it
yyyyMmDdWithOffset(date, utc_offset_seconds, bo) ==
  IF date.valid THEN FieldsAt(date.t + utc_offset_seconds, 0) ELSE NaNStr

\* new Date(`${s}T00:00:00`): a date-time without offset is local time
ParseLocalMidnight(s, bo) ==
  IF s.kind = "ymd"
    THEN DateOf(DaysFromCivil(s.y, s.m, s.d) * 86400 - bo)
    ELSE InvalidDate

\* yesterday = new Date(now); yesterday.setDate(now.getDate() - 1): the same
\* local wall clock time one local day earlier
Yesterday(date, bo) ==
  LET local == date.t + bo
  IN  DateOf((local - 86400) - bo)

(* ------------------------------------------------------------------ *)
(* The resolver part of buildForecastCards                            *)
(* ------------------------------------------------------------------ *)
\* a plausible slip: the offset consulted before the IANA name
ComputeTodayStr_OffsetFirst(n, tz, off, bo) ==
  LET s1 == IF off.num THEN yyyyMmDdWithOffset(n, off.v, bo) ELSE NullStr
      s2 == IF ~Truthy(s1) /\ tz # "" THEN yyyyMmDdInZone(n, tz) ELSE s1
  IN  IF ~Truthy(s2) THEN LocalYmd(n, bo) ELSE s2

\* lines 123-129: today in the API zone, else by offset, else browser local
ComputeTodayStr(n, tz, off, bo) ==
  LET s1 == IF tz # "" THEN yyyyMmDdInZone(n, tz) ELSE NullStr
      s2 == IF ~Truthy(s1) /\ off.num THEN yyyyMmDdWithOffset(n, off.v, bo) ELSE s1
  IN  IF ~Truthy(s2) THEN LocalYmd(n, bo) ELSE s2

\* a plausible slip: only the first entry is compared with today
FindIndex_FirstOnly(ts, s) ==
  IF Len(ts) >= 1 /\ ts[1] = s THEN 0 ELSE -1

\* Array.prototype.findIndex(t => t === s), 0-based, -1 when absent
FindIndex(ts, s) ==
  IF \E i \in 1..Len(ts) : ts[i] = s
    THEN (CHOOSE i \in 1..Len(ts) : ts[i] = s /\ \A j \in 1..(i - 1) : ts[j] # s) - 1
    ELSE -1

\* lines 136-144: the yesterday string
ComputeYStr(n, tz, off, bo) ==
  LET yesterday == Yesterday(n, bo)
  IN  IF tz # "" THEN yyyyMmDdInZone(yesterday, tz)
      ELSE IF off.num THEN yyyyMmDdWithOffset(yesterday, off.v, bo)
      ELSE LocalYmd(yesterday, bo)

\* a plausible slip: the shift taken whenever the array starts with yesterday
OffByOne_YesterdayOnly(ts, idx, today, n, tz, off, bo) ==
  IF idx = -1 /\ Len(ts) >= 2
    THEN IF ts[1] = ComputeYStr(n, tz, off, bo) THEN 1 ELSE idx
    ELSE idx

\* lines 135-146: shift by one when the array starts with yesterday
OffByOne(ts, idx, today, n, tz, off, bo) ==
  IF idx = -1 /\ Len(ts) >= 2
    THEN IF ts[1] = ComputeYStr(n, tz, off, bo) /\ ts[2] = today THEN 1 ELSE idx
    ELSE idx

\* lines 151-160: the date of times[i] re-derived through a local midnight
CandidateStr(s, tz, off, bo) ==
  LET dt == ParseLocalMidnight(s, bo)
  IN  IF tz # "" THEN yyyyMmDdInZone(dt, tz)
      ELSE IF off.num THEN yyyyMmDdWithOffset(dt, off.v, bo)
      ELSE LocalYmd(dt, bo)

\* a plausible slip: the guard startIdx === -1 of line 149 left out
CandidateMatch_Unguarded(ts, idx, today, tz, off, bo) ==
  LET hit(i) == CandidateStr(ts[i], tz, off, bo) = today
  IN  IF \E i \in 1..Len(ts) : hit(i)
        THEN (CHOOSE i \in 1..Len(ts) : hit(i) /\ \A j \in 1..(i - 1) : ~hit(j)) - 1
        ELSE idx

\* lines 149-164: first index whose re-derived date is today
CandidateMatch(ts, idx, today, tz, off, bo) ==
  IF idx = -1
    THEN LET hit(i) == CandidateStr(ts[i], tz, off, bo) = today
         IN  IF \E i \in 1..Len(ts) : hit(i)
               THEN (CHOOSE i \in 1..Len(ts) : hit(i) /\ \A j \in 1..(i - 1) : ~hit(j)) - 1
               ELSE -1
    ELSE idx

\* a plausible slip: line 166 left out
FinalFallback_Missing(idx) == idx

\* line 166
FinalFallback(idx) == IF idx = -1 THEN 0 ELSE idx

\* lines 132-166: the chain from the today string to the start index
ResolveFrom(ts, today, n, tz, off, bo) ==
  FinalFallback(
    CandidateMatch(ts,
                   OffByOne(ts, FindIndex(ts, today), today, n, tz, off, bo),
                   today, tz, off, bo))

\* lines 120-166 as one function of the call's arguments and the environment
ResolveStartIdx(ts, n, tz, off, bo) ==
  ResolveFrom(ts, ComputeTodayStr(n, tz, off, bo), n, tz, off, bo)

\* the step of the chain that yields the index, from the index after the
\* exact match (i1), after the heuristic (i2) and after the candidates (i3)
StepName(i1, i2, i3) ==
  IF i1 # -1 THEN "exact"
  ELSE IF i2 # -1 THEN "offbyone"
  ELSE IF i3 # -1 THEN "candidate"
  ELSE "fallback"

StepAfterHeuristic(ts, today, i1, i2, tz, off, bo) ==
  StepName(i1, i2, CandidateMatch(ts, i2, today, tz, off, bo))

StepAfterMatch(ts, today, i1, n, tz, off, bo) ==
  StepAfterHeuristic(ts, today, i1, OffByOne(ts, i1, today, n, tz, off, bo), tz, off, bo)

StepFrom(ts, today, n, tz, off, bo) ==
  StepAfterMatch(ts, today, FindIndex(ts, today), n, tz, off, bo)

ResolveStep(ts, n, tz, off, bo) ==
  StepFrom(ts, ComputeTodayStr(n, tz, off, bo), n, tz, off, bo)

(* ------------------------------------------------------------------ *)
(* The cards                                                          *)
(* ------------------------------------------------------------------ *)
maxCards == 4

Dash == [dash |-> TRUE, n |-> 0]

Shown(n) == [dash |-> FALSE, n |-> n]

\* Math.round of a temperature given in tenths of a degree
MathRound(x) == (x + 5) \div 10

\* an array that may be missing: [present, vals]; vals holds Num(v) or NullNum
ArrayOf(vals) == [present |-> TRUE, vals |-> vals]

NoArray == [present |-> FALSE, vals |-> <<>>]

\* arr && arr[idx] != null, idx 0-based
HasValue(arr, idx) == arr.present /\ idx < Len(arr.vals) /\ arr.vals[idx + 1].num

\* a plausible slip: the value coerced without the null test
TempText_NullAsZero(arr, idx) ==
  IF HasValue(arr, idx) THEN Shown(MathRound(arr.vals[idx + 1].v)) ELSE Shown(0)

\* lines 190-191
TempText(arr, idx) ==
  IF HasValue(arr, idx) THEN Shown(MathRound(arr.vals[idx + 1].v)) ELSE Dash

\* line 192
CodeAt(arr, idx) == IF HasValue(arr, idx) THEN arr.vals[idx + 1] ELSE NullNum

\* a plausible slip: the clear sky tested by falsiness, !code
weatherCodeToIcon_FalsyIsClear(code, isDay) ==
  IF ~code.num \/ code.v = 0 THEN (IF isDay THEN "sun" ELSE "moon")
  ELSE IF code.v \in {1, 2} THEN "partly"
  ELSE IF code.v \in {3} THEN "cloud"
  ELSE IF code.v \in {45, 48} THEN "fog"
  ELSE IF code.v \in {51, 53, 55, 56, 57} THEN "drizzle"
  ELSE IF code.v \in {61, 63, 65, 66, 67} THEN "rain"
  ELSE IF code.v \in {71, 73, 75, 77, 85, 86} THEN "snow"
  ELSE IF code.v \in {80, 81, 82} THEN "rain"
  ELSE IF code.v \in {95, 96, 99} THEN "thunder"
  ELSE "partly"

\* lines 67-78; code is Num(v) for a number and has num = FALSE for null,
\* undefined and a string, which === and includes match with no number
weatherCodeToIcon(code, isDay) ==
  IF ~code.num THEN "partly"
  ELSE IF code.v = 0 THEN (IF isDay THEN "sun" ELSE "moon")
  ELSE IF code.v \in {1, 2} THEN "partly"
  ELSE IF code.v \in {3} THEN "cloud"
  ELSE IF code.v \in {45, 48} THEN "fog"
  ELSE IF code.v \in {51, 53, 55, 56, 57} THEN "drizzle"
  ELSE IF code.v \in {61, 63, 65, 66, 67} THEN "rain"
  ELSE IF code.v \in {71, 73, 75, 77, 85, 86} THEN "snow"
  ELSE IF code.v \in {80, 81, 82} THEN "rain"
  ELSE IF code.v \in {95, 96, 99} THEN "thunder"
  ELSE "partly"

WeekdayNames == <<"Sun", "Mon", "Tue", "Wed", "Thu", "Fri", "Sat">>

\* format of {weekday: 'short'} for an instant seen at an offset
WeekdayAt(t, offset) == WeekdayNames[(((t + offset) \div 86400 + 4) % 7) + 1]

\* lines 184-188: Intl.DateTimeFormat raises a RangeError for a zone it does
\* not know and for an invalid date; only the cards after the first format
LabelThrows(s, isToday, tz, bo) ==
  /\ ~isToday
  /\ \/ (tz # "" /\ tz \notin KnownZones)
     \/ ~ParseLocalMidnight(s, bo).valid

Label(s, isToday, tz, bo) ==
  IF isToday THEN "Today"
  ELSE IF tz # "" THEN WeekdayAt(ParseLocalMidnight(s, bo).t, ZoneOffset(tz))
  ELSE WeekdayAt(ParseLocalMidnight(s, bo).t, bo)

\* times[idx], idx 0-based; undefined past the end
At(ts, idx) == IF idx < Len(ts) THEN ts[idx + 1] ELSE Undefined

\* a plausible slip: the low read at the index of the following day
Card_LowOfNextIndex(d, ts, idx, sIdx, tz, bo) ==
  [ date  |-> At(ts, idx),
    idx   |-> idx,
    label |-> Label(At(ts, idx), idx = sIdx, tz, bo),
    hi    |-> TempText(d.temperature_2m_max, idx),
    lo    |-> TempText(d.temperature_2m_min, idx + 1),
    icon  |-> weatherCodeToIcon(CodeAt(d.weathercode, idx), TRUE) ]

\* lines 183-209: the card of index idx
Card(d, ts, idx, sIdx, tz, bo) ==
  [ date  |-> At(ts, idx),
    idx   |-> idx,
    label |-> Label(At(ts, idx), idx = sIdx, tz, bo),
    hi    |-> TempText(d.temperature_2m_max, idx),
    lo    |-> TempText(d.temperature_2m_min, idx),
    icon  |-> weatherCodeToIcon(CodeAt(d.weathercode, idx), TRUE) ]

\* number of iterations of the loop of line 180 that pass the break of line 182
Passing(ts, sIdx) ==
  LET ok(k) == \A i \in 0..(k - 1) : Truthy(At(ts, sIdx + i))
  IN  CHOOSE k \in 0..maxCards : ok(k) /\ (k = maxCards \/ ~Truthy(At(ts, sIdx + k)))

\* the iterations that raise, among those that pass the break
Raising(ts, sIdx, tz, bo) ==
  { i \in 0..(Passing(ts, sIdx) - 1) : LabelThrows(At(ts, sIdx + i), i = 0, tz, bo) }

Min(S) == CHOOSE x \in S : \A y \in S : x <= y

\* number of cards appended: all that pass the break, or those before the
\* first iteration that raises
AppendedOf(passing, raising) == IF raising = {} THEN passing ELSE Min(raising)

Appended(ts, sIdx, tz, bo) == AppendedOf(Passing(ts, sIdx), Raising(ts, sIdx, tz, bo))

\* a plausible slip: the memo never consulted
needRebuild_Always(c, sIdx, len) == TRUE

\* line 170
needRebuild(c, sIdx, len) == ~c.built \/ c.startIdx # sIdx \/ c.len # len

\* the cards the loop appends, in order
Cards(d, ts, sIdx, tz, bo) ==
  [i \in 1..Appended(ts, sIdx, tz, bo) |-> Card(d, ts, sIdx + i - 1, sIdx, tz, bo)]

\* a plausible slip: the removal loop of line 177 left out
Rebuild_NoClear(c, d, ts, sIdx, tz, bo) ==
  [ built    |-> TRUE,
    startIdx |-> sIdx,
    len      |-> Len(ts),
    children |-> c.children \o Cards(d, ts, sIdx, tz, bo) ]

\* lines 173-210: memo fields, children removed, cards appended
Rebuild(c, d, ts, sIdx, tz, bo) ==
  [ built    |-> TRUE,
    startIdx |-> sIdx,
    len      |-> Len(ts),
    children |-> Cards(d, ts, sIdx, tz, bo) ]

\* some per-day array exists
AnyArray(d) ==
  d.temperature_2m_max.present \/ d.temperature_2m_min.present \/ d.weathercode.present

\* iterations of the loop that were started: one more than the cards
\* appended when the loop ends by the break or by an exception
Started(a, raised) == IF raised \/ a < maxCards THEN a + 1 ELSE a

\* highest index of times read by the loop, and of a per-day array (-1: none);
\* a is the number of cards appended
ReadsOf(d, sIdx, a, raised) ==
  [ timesMax |-> sIdx + Started(a, raised) - 1,
    parMax   |-> IF a > 0 /\ AnyArray(d) THEN sIdx + a - 1 ELSE -1 ]

LoopReads(d, ts, sIdx, tz, bo) ==
  ReadsOf(d, sIdx, Appended(ts, sIdx, tz, bo), Raising(ts, sIdx, tz, bo) # {})

NoReads == [timesMax |-> -1, parMax |-> -1]

\* lines 170-210 once the start index sIdx is resolved
BuildAt(c, d, ts, sIdx, tz, bo) ==
  IF ~needRebuild(c, sIdx, Len(ts))
    THEN [container |-> c, outcome |-> "skipped", reads |-> NoReads]
    ELSE [ container |-> Rebuild(c, d, ts, sIdx, tz, bo),
           outcome   |-> IF Raising(ts, sIdx, tz, bo) # {} THEN "threw" ELSE "rebuilt",
           reads     |-> LoopReads(d, ts, sIdx, tz, bo) ]

\* buildForecastCards(container, dailyData, apiTz, utcOffsetSeconds) at instant n
\* in a browser of offset bo: the container after the call, how the call
\* ended, and what the loop read
buildForecastCards(c, d, ts, tz, off, n, bo) ==
  IF ~d.timeIsArray
    THEN [container |-> c, outcome |-> "returned", reads |-> NoReads]
    ELSE BuildAt(c, d, ts, ResolveStartIdx(ts, n, tz, off, bo), tz, bo)

(* ------------------------------------------------------------------ *)
(* Inputs                                                             *)
(* ------------------------------------------------------------------ *)
\* the date strings of the provider, as they are written in the payload
Calendar ==
  << Ymd(2024, 5, 28), Ymd(2024, 5, 29), Ymd(2024, 5, 30), Ymd(2024, 5, 31),
     Ymd(2024, 6, 1), Ymd(2024, 6, 2), Ymd(2024, 6, 3), Ymd(2024, 6, 4),
     Ymd(2024, 6, 5) >>

\* ascending contiguous runs of the calendar, the empty one included
Runs(starts) ==
  UNION { { SubSeq(Calendar, s, s + n - 1) :
              n \in { k \in 0..MaxLen : s + k - 1 <= Len(Calendar) } } : s \in starts }

\* a run whose second entry is not a date: an unparsable or an empty string
Damaged(runs) ==
  { [r EXCEPT ![2] = g] : r \in { q \in runs : Len(q) >= 2 },
                         g \in {GarbageStr, EmptyStr} }

TimesSet == Runs(1..Len(Calendar)) \cup Damaged(Runs(1..Len(Calendar)))

\* 2024-05-31T21:00Z, 2024-06-01T02:00Z, 2024-06-01T13:00Z
Instants ==
  { 19874 * 86400 + 21 * 3600, 19875 * 86400 + 2 * 3600, 19875 * 86400 + 13 * 3600 }

\* apiTz: absent, three zones the runtime knows, one it rejects
ApiZones == {"", "Pacific/Pago_Pago", "Pacific/Honolulu", "Pacific/Kiritimati", "Mars/Phobos"}

Offsets == {NullNum, Num(-10 * 3600), Num(14 * 3600)}

BrowserOffsets == {-11 * 3600, 0, 14 * 3600}

\* per-day arrays in tenths of a degree; variant "b" has a null and lacks codes,
\* variant "c" lacks the highs, has one low too few, a null code and a code
\* that is in no list
DailyOf(variant, len) ==
  CASE variant = "a" ->
         [ timeIsArray        |-> TRUE,
           temperature_2m_max |-> ArrayOf([i \in 1..len |-> Num(700 + 16 * i)]),
           temperature_2m_min |-> ArrayOf([i \in 1..len |-> Num(500 + 16 * i)]),
           weathercode        |-> ArrayOf([i \in 1..len |-> Num(<<0, 3, 61, 95, 45, 71>>[((i - 1) % 6) + 1])]) ]
    [] variant = "b" ->
         [ timeIsArray        |-> TRUE,
           temperature_2m_max |-> ArrayOf([i \in 1..len |-> IF i = 2 THEN NullNum ELSE Num(655 + 10 * i)]),
           temperature_2m_min |-> ArrayOf([i \in 1..len |-> Num(455 + 10 * i)]),
           weathercode        |-> NoArray ]
    [] variant = "c" ->
         [ timeIsArray        |-> TRUE,
           temperature_2m_max |-> NoArray,
           temperature_2m_min |-> ArrayOf([i \in 1..(len - 1) |-> Num(-25 - 10 * i)]),
           weathercode        |-> ArrayOf([i \in 1..len |-> IF i = 1 THEN NullNum ELSE Num(42)]) ]
    [] variant = "notime" ->
         [ timeIsArray        |-> FALSE,
           temperature_2m_max |-> NoArray,
           temperature_2m_min |-> NoArray,
           weathercode        |-> NoArray ]

NoDaily == DailyOf("notime", 0)

Placeholder ==
  [ date |-> Undefined, idx |-> -1, label |-> "placeholder",
    hi |-> Dash, lo |-> Dash, icon |-> "none" ]

\* a container before its first build: no memo fields, the children of the page
FreshContainer(children) ==
  [built |-> FALSE, startIdx |-> -1, len |-> -1, children |-> children]

(* ------------------------------------------------------------------ *)
(* The parts of the page before they are used                         *)
(* ------------------------------------------------------------------ *)
TargetIds == {1, 2}

TargetsIdle ==
  /\ targets = [id \in TargetIds |-> FreshContainer(<<>>)]
  /\ target = 0

IconIdle ==
  /\ iconCode = NullNum
  /\ iconIsDay = TRUE
  /\ icon = "unset"

NoLocation == [source |-> "none", label |-> ""]

LocateIdle ==
  /\ saved = "absent"
  /\ geoPresent = FALSE
  /\ navDone = FALSE
  /\ navPromise = "unstarted"
  /\ navFired = {}
  /\ navSettles = 0
  /\ providers = <<>>
  /\ locPc = "idle"
  /\ provIdx = 0
  /\ consulted = <<>>
  /\ location = NoLocation

\* a container element initClouds has not seen
FreshEl == [initialized |-> FALSE, teardown |-> 0, surprise |-> FALSE, canvases |-> {}]

CloudIdle ==
  /\ cloudEl = FreshEl
  /\ instances = <<>>
  /\ cloudArg = "none"
  /\ cloudRet = "none"
  /\ cloudCalls = 0
  /\ cloudLog = <<>>
  /\ rendered = 0

\* no fetchWithRetries call under way
NoResult == [kind |-> "none", what |-> "", attempt |-> 0]

NoFetch ==
  [ tries |-> 0, backoff |-> 0, i |-> 0, at |-> "idle", attempts |-> 0,
    sleeps |-> <<>>, err |-> NoResult, result |-> NoResult ]

FetchIdle == fetchSt = NoFetch

NoPlace == "none"

WidgetIdle ==
  /\ initPc = "idle"
  /\ loc = NoPlace
  /\ configured = NoPlace
  /\ refreshes = <<>>
  /\ renderLog = <<>>
  /\ locationText = ""

ForecastIdle ==
  /\ now = DateOf(19875 * 86400 + 2 * 3600)
  /\ browserOffset = 0
  /\ times = <<>>
  /\ apiTz = ""
  /\ utcOffsetSeconds = NullNum
  /\ pc = "idle"
  /\ todayStr = NullStr
  /\ startIdx = -1
  /\ step = "none"
  /\ daily = NoDaily
  /\ container = FreshContainer(<<>>)
  /\ outcome = "none"
  /\ reads = NoReads
  /\ ticks = 0

(* ------------------------------------------------------------------ *)
(* The resolver, step by step, on inputs drawn at the start           *)
(* ------------------------------------------------------------------ *)
InitResolve ==
  /\ now \in { DateOf(t) : t \in Instants }
  /\ browserOffset \in BrowserOffsets
  /\ times \in TimesSet
  /\ apiTz \in ApiZones
  /\ utcOffsetSeconds \in Offsets
  /\ pc = "today"
  /\ todayStr = NullStr
  /\ startIdx = -1
  /\ step = "none"
  /\ daily = NoDaily
  /\ container = FreshContainer(<<>>)
  /\ outcome = "none"
  /\ reads = NoReads
  /\ ticks = 0
  /\ TargetsIdle /\ IconIdle /\ LocateIdle /\ CloudIdle /\ FetchIdle /\ WidgetIdle

frame == <<now, browserOffset, times, apiTz, utcOffsetSeconds, daily, container,
           outcome, reads, ticks, targetVars, iconVars, locateVars, cloudVars,
           fetchVars, widgetVars>>

ComputeToday ==
  /\ pc = "today"
  /\ todayStr' = ComputeTodayStr(now, apiTz, utcOffsetSeconds, browserOffset)
  /\ pc' = "find"
  /\ UNCHANGED <<startIdx, step, frame>>

ExactMatch ==
  /\ pc = "find"
  /\ startIdx' = FindIndex(times, todayStr)
  /\ step' = IF startIdx' # -1 THEN "exact" ELSE step
  /\ pc' = "heuristic"
  /\ UNCHANGED <<todayStr, frame>>

OffByOneStep ==
  /\ pc = "heuristic"
  /\ startIdx' = OffByOne(times, startIdx, todayStr, now, apiTz, utcOffsetSeconds, browserOffset)
  /\ step' = IF startIdx = -1 /\ startIdx' # -1 THEN "offbyone" ELSE step
  /\ pc' = "candidate"
  /\ UNCHANGED <<todayStr, frame>>

CandidateStep ==
  /\ pc = "candidate"
  /\ startIdx' = CandidateMatch(times, startIdx, todayStr, apiTz, utcOffsetSeconds, browserOffset)
  /\ step' = IF startIdx = -1 /\ startIdx' # -1 THEN "candidate" ELSE step
  /\ pc' = "fallback"
  /\ UNCHANGED <<todayStr, frame>>

FallbackStep ==
  /\ pc = "fallback"
  /\ startIdx' = FinalFallback(startIdx)
  /\ step' = IF startIdx = -1 THEN "fallback" ELSE step
  /\ pc' = "done"
  /\ UNCHANGED <<todayStr, frame>>

NextResolve ==
  \/ ComputeToday
  \/ ExactMatch
  \/ OffByOneStep
  \/ CandidateStep
  \/ FallbackStep

SpecResolve == InitResolve /\ [][NextResolve]_vars

(* ------------------------------------------------------------------ *)
(* Renders into the forecast container                                *)
(* ------------------------------------------------------------------ *)
\* data.utc_offset_seconds as the payload carries it
RawNumber(v) == [kind |-> "number", v |-> v]

RawString(v) == [kind |-> "string", v |-> v]

RawMissing == [kind |-> "missing", v |-> 0]

\* renderUI: a number is taken as it is, a non-empty string goes through
\* Number(), anything else is null
UtcOffsetOf(raw) ==
  IF raw.kind \in {"number", "string"} THEN Num(raw.v) ELSE NullNum

\* runs that start on 2024-05-31 or 2024-06-01, and two damaged ones
RenderTimes == Runs({4, 5}) \cup Damaged({SubSeq(Calendar, 4, 6)})

\* data.daily of a payload: <<daily.time, the per-day arrays>>
Payloads ==
  { <<ts, DailyOf(variant, Len(ts))>> : ts \in RenderTimes, variant \in {"a", "b"} }
    \cup { <<SubSeq(Calendar, 4, 6), DailyOf("c", 3)>> }
    \cup { <<(<<>>), NoDaily>> }

\* (data.timezone, data.utc_offset_seconds) of a payload
RenderZones ==
  { <<"", RawMissing>>,
    <<"Pacific/Honolulu", RawNumber(-10 * 3600)>>,
    <<"Mars/Phobos", RawString(-10 * 3600)>> }

RenderBrowserOffsets == {0, 14 * 3600}

Init ==
  /\ now = DateOf(19875 * 86400 + 2 * 3600)
  /\ browserOffset \in RenderBrowserOffsets
  /\ times = <<>>
  /\ apiTz = ""
  /\ utcOffsetSeconds = NullNum
  /\ pc = "idle"
  /\ todayStr = NullStr
  /\ startIdx = -1
  /\ step = "none"
  /\ daily = NoDaily
  /\ container \in { FreshContainer(<<>>), FreshContainer(<<Placeholder>>) }
  /\ outcome = "none"
  /\ reads = NoReads
  /\ ticks = 0
  /\ TargetsIdle /\ IconIdle /\ LocateIdle /\ CloudIdle /\ FetchIdle /\ WidgetIdle

\* renderUI(data, label), the forecast part: data.daily is d with d.time = ts,
\* data.timezone is tz and data.utc_offset_seconds is raw; an exception of
\* buildForecastCards is caught and logged
\* the call buildForecastCards(EL.forecastContainer, data.daily, tz, off) of
\* line 349 with its result r; today is the today string it resolved
Call(ts, d, tz, off, today, r) ==
  /\ times' = ts
  /\ daily' = d
  /\ apiTz' = tz
  /\ utcOffsetSeconds' = off
  /\ todayStr' = IF d.timeIsArray THEN today ELSE NullStr
  /\ startIdx' = IF d.timeIsArray
                   THEN ResolveFrom(ts, today, now, tz, off, browserOffset) ELSE -1
  /\ step' = IF d.timeIsArray
               THEN StepFrom(ts, today, now, tz, off, browserOffset) ELSE "none"
  /\ container' = r.container
  /\ outcome' = r.outcome
  /\ reads' = r.reads
  /\ UNCHANGED <<now, browserOffset, pc, ticks, targetVars, iconVars, locateVars, cloudVars,
                 fetchVars, widgetVars>>

CallWith(ts, d, tz, off) ==
  Call(ts, d, tz, off, ComputeTodayStr(now, tz, off, browserOffset),
       buildForecastCards(container, d, ts, tz, off, now, browserOffset))

RenderUI(ts, d, tz, raw) == CallWith(ts, d, tz, UtcOffsetOf(raw))

\* a payload arrives (initial fetch, hourly refresh, weather:config-saved)
\* and is rendered
Render ==
  \E p \in Payloads, z \in RenderZones : RenderUI(p[1], p[2], z[1], z[2])

\* twelve hours pass
Tick ==
  /\ ticks < MaxTicks
  /\ ticks' = ticks + 1
  /\ now' = DateOf(now.t + 12 * 3600)
  /\ UNCHANGED <<browserOffset, times, apiTz, utcOffsetSeconds, pc, todayStr,
                 startIdx, step, daily, container, outcome, reads,
                 targetVars, iconVars, locateVars, cloudVars, fetchVars, widgetVars>>

Next == Render \/ Tick

Spec == Init /\ [][Next]_vars

(* ------------------------------------------------------------------ *)
(* Builds into several containers                                     *)
(* ------------------------------------------------------------------ *)
\* series that resolve to (1, 2), (0, 2) and (0, 1) at the instant modelled
TargetTimes == { SubSeq(Calendar, 4, 5), SubSeq(Calendar, 5, 6), SubSeq(Calendar, 5, 5) }

TargetPayloads ==
  { <<ts, DailyOf(variant, Len(ts))>> : ts \in TargetTimes, variant \in {"a", "b"} }

InitTargets ==
  /\ ForecastIdle /\ TargetsIdle /\ IconIdle /\ LocateIdle /\ CloudIdle /\ FetchIdle /\ WidgetIdle

\* a plausible slip: the memo kept in one place for all containers
TargetsAfter_SharedMemo(tg, id, c) ==
  [k \in DOMAIN tg |->
     IF k = id THEN c
     ELSE [tg[k] EXCEPT !.built = c.built, !.startIdx = c.startIdx, !.len = c.len]]

\* lines 173-177 and 207: the memo fields are properties of the container
\* passed to the call and the cards are its children; c is that container
\* after the call
TargetsAfter(tg, id, c) == [tg EXCEPT ![id] = c]

\* buildForecastCards(container, d, tz, off) where container is the one of
\* id, with its result r
BuildCall(id, ts, d, tz, off, r) ==
  /\ targets' = TargetsAfter(targets, id, r.container)
  /\ target' = id
  /\ times' = ts
  /\ daily' = d
  /\ apiTz' = tz
  /\ utcOffsetSeconds' = off
  /\ todayStr' = ComputeTodayStr(now, tz, off, browserOffset)
  /\ startIdx' = ResolveStartIdx(ts, now, tz, off, browserOffset)
  /\ step' = ResolveStep(ts, now, tz, off, browserOffset)
  /\ outcome' = r.outcome
  /\ reads' = r.reads
  /\ UNCHANGED <<now, browserOffset, pc, container, ticks, iconVars, locateVars, cloudVars,
                 fetchVars, widgetVars>>

BuildInto ==
  \E id \in TargetIds, p \in TargetPayloads :
    BuildCall(id, p[1], p[2], "", NullNum,
              buildForecastCards(targets[id], p[2], p[1], "", NullNum, now, browserOffset))

NextTargets == BuildInto

SpecTargets == InitTargets /\ [][NextTargets]_vars

(* ------------------------------------------------------------------ *)
(* weatherCodeToIcon on its own                                       *)
(* ------------------------------------------------------------------ *)
\* a code that is a numeric string, as a payload may carry it
StringCode(v) == [num |-> FALSE, v |-> v]

\* numbers around the range of the WMO codes, null / undefined, a string
Codes == { Num(v) : v \in -1..MaxCode } \cup { NullNum, StringCode(3) }

InitIcon ==
  /\ iconCode \in Codes
  /\ iconIsDay \in BOOLEAN
  /\ icon = "unset"
  /\ ForecastIdle /\ TargetsIdle /\ LocateIdle /\ CloudIdle /\ FetchIdle /\ WidgetIdle

MapIcon ==
  /\ icon = "unset"
  /\ icon' = weatherCodeToIcon(iconCode, iconIsDay)
  /\ UNCHANGED <<iconCode, iconIsDay, forecastVars, targetVars, locateVars, cloudVars,
                 fetchVars, widgetVars>>

NextIcon == MapIcon

SpecIcon == InitIcon /\ [][NextIcon]_vars

(* ------------------------------------------------------------------ *)
(* detectLocation                                                     *)
(* ------------------------------------------------------------------ *)
\* the urls of the providers list, in list order
ProviderNames == <<"ipapi.co", "ipwho.is", "ipinfo.io", "geoip.vuiz.net">>

\* what localStorage gives: getItem throws, no entry, an entry JSON.parse
\* rejects, an object without numeric lat and lon, a usable object
SavedKinds == {"throws", "absent", "badjson", "nocoords", "valid"}

\* the attempts of one provider: "fail" is a rejected fetch or a response
\* that is not ok; otherwise the JSON received: a falsy value, an object the
\* mapper turns into null, an object with coordinates
ProviderResponses ==
  { <<"fail", "fail">>, <<"fail", "coords">>, <<"unmapped">>, <<"falsy">>, <<"coords">> }

\* fetchWithRetries(url, opts, tries, backoff): the JSON of the first attempt
\* that succeeds among the first tries ones, else the last error is thrown
fetchWithRetries(attempts, tries) ==
  IF \E i \in 1..tries : i <= Len(attempts) /\ attempts[i] # "fail"
    THEN [ ok   |-> TRUE,
           json |-> attempts[CHOOSE i \in 1..tries :
                               /\ i <= Len(attempts) /\ attempts[i] # "fail"
                               /\ \A j \in 1..(i - 1) : attempts[j] = "fail"] ]
    ELSE [ok |-> FALSE, json |-> "none"]

\* lines 263-268: fetchWithRetries(...).catch(() => null), if (!json)
\* continue, p.mapper(json): TRUE when the provider yields a location
ProviderMapped(attempts) ==
  /\ fetchWithRetries(attempts, 2).ok
  /\ fetchWithRetries(attempts, 2).json = "coords"

\* a plausible slip: the saved entry returned without the test of line 220
SavedUsable_Unchecked(s) == s \in {"nocoords", "valid"}

\* lines 216-222: raw is set, parses, and has numeric lat and lon
SavedUsable(s) == s = "valid"

LocationFrom(source, label) == [source |-> source, label |-> label]

\* line 276
NewYork == LocationFrom("fallback", "New York, USA")

InitLocate ==
  /\ saved \in SavedKinds
  /\ geoPresent \in BOOLEAN
  /\ providers \in [1..Len(ProviderNames) -> ProviderResponses]
  /\ navDone = FALSE
  /\ navPromise = "unstarted"
  /\ navFired = {}
  /\ navSettles = 0
  /\ locPc = "saved"
  /\ provIdx = 0
  /\ consulted = <<>>
  /\ location = NoLocation
  /\ ForecastIdle /\ TargetsIdle /\ IconIdle /\ CloudIdle /\ FetchIdle /\ WidgetIdle

locateFrame == <<saved, geoPresent, providers, forecastVars, targetVars, iconVars, cloudVars,
                 fetchVars, widgetVars>>

\* lines 215-224: 1) saved in localStorage
ReadSaved ==
  /\ locPc = "saved"
  /\ consulted' = Append(consulted, "saved")
  /\ IF SavedUsable(saved)
       THEN /\ location' = LocationFrom("saved", "saved label")
            /\ locPc' = "done"
       ELSE /\ location' = location
            /\ locPc' = "navigator"
  /\ UNCHANGED <<navDone, navPromise, navFired, navSettles, provIdx, locateFrame>>

\* lines 227-236: tryNavigator() is called and awaited; without geolocation
\* the promise is resolved with null at once, else getCurrentPosition and
\* the 9000 ms timer are started
StartNavigator ==
  /\ locPc = "navigator"
  /\ consulted' = Append(consulted, "navigator")
  /\ IF geoPresent
       THEN navPromise' = "pending" /\ navSettles' = navSettles
       ELSE navPromise' = "null" /\ navSettles' = navSettles + 1
  /\ locPc' = "awaitNav"
  /\ UNCHANGED <<navDone, navFired, provIdx, location, locateFrame>>

\* getCurrentPosition and the timer have been started
NavStarted == geoPresent /\ navPromise # "unstarted"

\* resolve(v): a promise already settled keeps its value
Settle(v) == IF navPromise = "pending" THEN v ELSE navPromise

\* a plausible slip: the done flag neither tested nor set
NavCallback_NoDoneFlag(name, v) ==
  /\ navFired' = navFired \cup {name}
  /\ navDone' = navDone
  /\ navPromise' = Settle(v)
  /\ navSettles' = navSettles + 1
  /\ UNCHANGED <<locPc, provIdx, consulted, location, locateFrame>>

\* a callback of tryNavigator runs: if (done) return; done = true; resolve(v)
NavCallback(name, v) ==
  /\ navFired' = navFired \cup {name}
  /\ IF navDone
       THEN UNCHANGED <<navDone, navPromise, navSettles>>
       ELSE /\ navDone' = TRUE
            /\ navPromise' = Settle(v)
            /\ navSettles' = navSettles + 1
  /\ UNCHANGED <<locPc, provIdx, consulted, location, locateFrame>>

\* line 230; the browser calls at most one of onSuccess and onError, once
OnSuccess ==
  /\ NavStarted
  /\ navFired \cap {"success", "error"} = {}
  /\ NavCallback("success", "pos")

\* line 231
OnError ==
  /\ NavStarted
  /\ navFired \cap {"success", "error"} = {}
  /\ NavCallback("error", "null")

\* line 233: the timer of 9000 ms fires
OnTimeout ==
  /\ NavStarted
  /\ "timeout" \notin navFired
  /\ NavCallback("timeout", "null")

\* lines 236-238: the await ends; if (nav) return nav
ResumeNavigator ==
  /\ locPc = "awaitNav"
  /\ navPromise \in {"null", "pos"}
  /\ IF navPromise = "pos"
       THEN /\ location' = LocationFrom("navigator", "")
            /\ locPc' = "done"
            /\ provIdx' = provIdx
       ELSE /\ location' = location
            /\ locPc' = "provider"
            /\ provIdx' = 1
  /\ UNCHANGED <<navDone, navPromise, navFired, navSettles, consulted, locateFrame>>

\* lines 261-273: one iteration of the loop over the providers
TryProvider ==
  /\ locPc = "provider"
  /\ consulted' = Append(consulted, ProviderNames[provIdx])
  /\ IF ProviderMapped(providers[provIdx])
       THEN /\ location' = LocationFrom(ProviderNames[provIdx], "city, region, country")
            /\ locPc' = "done"
            /\ provIdx' = provIdx
       ELSE /\ location' = location
            /\ provIdx' = provIdx + 1
            /\ locPc' = IF provIdx = Len(ProviderNames) THEN "fallback" ELSE "provider"
  /\ UNCHANGED <<navDone, navPromise, navFired, navSettles, locateFrame>>

\* line 276: 4) fallback hard-coded
Fallback ==
  /\ locPc = "fallback"
  /\ consulted' = Append(consulted, "fallback")
  /\ location' = NewYork
  /\ locPc' = "done"
  /\ UNCHANGED <<navDone, navPromise, navFired, navSettles, provIdx, locateFrame>>

NextLocate ==
  \/ ReadSaved
  \/ StartNavigator
  \/ OnSuccess
  \/ OnError
  \/ OnTimeout
  \/ ResumeNavigator
  \/ TryProvider
  \/ Fallback

SpecLocate == InitLocate /\ [][NextLocate]_vars

\* the steps of detectLocation itself: an async function goes on when what
\* it awaits has settled
LocateSteps == ReadSaved \/ StartNavigator \/ ResumeNavigator \/ TryProvider \/ Fallback

\* the timer of line 233 fires and the function runs on; the browser need
\* not ever call onSuccess or onError
SpecLocateFair ==
  InitLocate /\ [][NextLocate]_vars /\ WF_vars(OnTimeout) /\ WF_vars(LocateSteps)

(* ------------------------------------------------------------------ *)
(* The cloud animation layer (clouds.js)                              *)
(* ------------------------------------------------------------------ *)
\* the closure of an initClouds call that reached its end: loop state,
\* the IntersectionObserver, the listeners it registered, the tooltip timer
NewInstance ==
  [ running |-> TRUE, reqId |-> TRUE, io |-> TRUE,
    click |-> TRUE, resize |-> TRUE, enter |-> TRUE, vis |-> TRUE,
    tooltip |-> TRUE ]

\* startLoop: if (reqId) return; running = true; reqId = requestAnimationFrame
startLoop(inst) ==
  IF inst.reqId THEN inst ELSE [inst EXCEPT !.running = TRUE, !.reqId = TRUE]

\* stopLoop: running = false; the pending frame is cancelled
stopLoop(inst) == [inst EXCEPT !.running = FALSE, !.reqId = FALSE]

\* a plausible slip: the guard of line 10 left out
AlreadyInitialized_Ignored(el) == FALSE

\* line 10: if (containerEl.__cloudsInitialized) return containerEl
AlreadyInitialized(el) == el.initialized

\* a plausible slip: the exception let through
CatchResult_Rethrown == "threw"

\* lines 285-288: catch (err) { console.error(...); return null; }
CatchResult == "null"

cloudFrame == <<forecastVars, targetVars, iconVars, locateVars, fetchVars, widgetVars>>

\* initClouds(containerEl): arg is "null" for an absent container and "el"
\* for the container element; gl tells whether new THREE.WebGLRenderer
\* succeeds in this browser
InitClouds(arg, gl) ==
  /\ cloudCalls < MaxCloudCalls
  /\ cloudCalls' = cloudCalls + 1
  /\ cloudLog' = Append(cloudLog, arg)
  /\ cloudArg' = arg
  /\ IF arg = "null"
       THEN \* line 9 throws, the catch returns null
            /\ cloudRet' = CatchResult
            /\ UNCHANGED <<cloudEl, instances>>
       ELSE IF AlreadyInitialized(cloudEl)
       THEN \* line 10
            /\ cloudRet' = "el"
            /\ UNCHANGED <<cloudEl, instances>>
       ELSE IF ~gl
       THEN \* lines 11-27 ran, line 44 throws, the catch returns null
            /\ cloudRet' = CatchResult
            /\ cloudEl' = [cloudEl EXCEPT !.initialized = TRUE, !.surprise = TRUE]
            /\ UNCHANGED instances
       ELSE \* lines 11-284
            /\ Len(instances) < MaxInstances
            /\ cloudRet' = "el"
            /\ instances' = Append(instances, NewInstance)
            /\ cloudEl' = [ initialized |-> TRUE,
                            teardown    |-> Len(instances) + 1,
                            surprise    |-> TRUE,
                            canvases    |-> cloudEl.canvases \cup {Len(instances) + 1} ]
  /\ UNCHANGED <<rendered, cloudFrame>>

CallInitClouds == \E arg \in {"null", "el"}, gl \in BOOLEAN : InitClouds(arg, gl)

\* containerEl.__teardownClouds(), lines 274-282, of the instance that
\* installed it last
Teardown ==
  /\ cloudEl.teardown # 0
  /\ instances' = [instances EXCEPT ![cloudEl.teardown] =
                      [stopLoop(@) EXCEPT !.io = FALSE, !.click = FALSE, !.resize = FALSE]]
  /\ cloudEl' = [cloudEl EXCEPT !.initialized = FALSE,
                                !.surprise = FALSE,
                                !.canvases = @ \ {cloudEl.teardown}]
  /\ UNCHANGED <<cloudArg, cloudRet, cloudCalls, cloudLog, rendered, cloudFrame>>

\* animateFrame of instance k runs: lines 192-225; due tells whether a
\* frame interval has accumulated
Frame(k, due) ==
  /\ instances[k].reqId
  /\ IF ~instances[k].running
       THEN /\ instances' = [instances EXCEPT ![k].reqId = FALSE]
            /\ rendered' = rendered
       ELSE /\ instances' = instances
            /\ rendered' = IF due /\ rendered < MaxFrames THEN rendered + 1 ELSE rendered
  /\ UNCHANGED <<cloudEl, cloudArg, cloudRet, cloudCalls, cloudLog, cloudFrame>>

AnimationFrame == \E k \in 1..Len(instances), due \in BOOLEAN : Frame(k, due)

\* the IntersectionObserver of instance k reports: lines 257-261
Intersect(k, visible) ==
  /\ instances[k].io
  /\ instances' = [instances EXCEPT ![k] = IF visible THEN startLoop(@) ELSE stopLoop(@)]
  /\ UNCHANGED <<cloudEl, cloudArg, cloudRet, cloudCalls, cloudLog, rendered, cloudFrame>>

Intersection == \E k \in 1..Len(instances), visible \in BOOLEAN : Intersect(k, visible)

\* visibilitychange on document: the listener of every instance runs, lines
\* 264-270; sized tells whether the container has a non-empty rectangle
Visibility(hidden, sized) ==
  /\ instances # <<>>
  /\ instances' = [k \in 1..Len(instances) |->
                     IF ~instances[k].vis THEN instances[k]
                     ELSE IF hidden THEN stopLoop(instances[k])
                     ELSE IF sized THEN startLoop(instances[k])
                     ELSE instances[k]]
  /\ UNCHANGED <<cloudEl, cloudArg, cloudRet, cloudCalls, cloudLog, rendered, cloudFrame>>

VisibilityChange == \E hidden \in BOOLEAN, sized \in BOOLEAN : Visibility(hidden, sized)

\* pointerenter on the container: the listener of every instance runs,
\* line 186
PointerEnter ==
  /\ instances # <<>>
  /\ instances' = [k \in 1..Len(instances) |->
                     IF instances[k].enter THEN startLoop(instances[k]) ELSE instances[k]]
  /\ UNCHANGED <<cloudEl, cloudArg, cloudRet, cloudCalls, cloudLog, rendered, cloudFrame>>

\* the 1200 ms timer of the tooltip of instance k fires: lines 174-177
TooltipTimer(k) ==
  /\ instances[k].tooltip
  /\ instances' = [instances EXCEPT ![k].tooltip = FALSE]
  /\ UNCHANGED <<cloudEl, cloudArg, cloudRet, cloudCalls, cloudLog, rendered, cloudFrame>>

TooltipTimeout == \E k \in 1..Len(instances) : TooltipTimer(k)

InitCloud ==
  /\ CloudIdle
  /\ ForecastIdle /\ TargetsIdle /\ IconIdle /\ LocateIdle /\ FetchIdle /\ WidgetIdle

NextCloud ==
  \/ CallInitClouds
  \/ Teardown
  \/ AnimationFrame
  \/ Intersection
  \/ VisibilityChange
  \/ PointerEnter
  \/ TooltipTimeout

SpecCloud == InitCloud /\ [][NextCloud]_vars

(* ------------------------------------------------------------------ *)
(* fetchWithRetries, attempt by attempt                               *)
(* ------------------------------------------------------------------ *)
\* how one attempt ends: fetch rejects, the response is not ok, the body of
\* an ok response does not parse, or the JSON of an ok response (an object,
\* or the JSON value null)
FetchFailures == {"neterr", "status", "badjson"}

FetchBodies == {"object", "null"}

FetchEndings == FetchFailures \cup FetchBodies

\* the base delays of the call sites and no delay
Backoffs == {0, 300, 400}

Body(what, n) == [kind |-> "body", what |-> what, attempt |-> n]

Error(what, n) == [kind |-> "error", what |-> what, attempt |-> n]

\* the function ran off its end: the promise resolves with undefined
UndefinedResult == [kind |-> "undefined", what |-> "", attempt |-> 0]

\* a plausible slip: the sleep taken after the last attempt as well
SleepsAgain_AfterLast(f) == f.i <= f.tries - 1

\* line 60: if (i < tries - 1) await sleep(...); else throw err
SleepsAgain(f) == f.i < f.tries - 1

\* line 54: the loop test i < tries; when it fails the function ends
\* without a return statement
LoopTest(f) ==
  IF f.i < f.tries THEN [f EXCEPT !.at = "fetch"]
  ELSE [f EXCEPT !.at = "returned", !.result = UndefinedResult]

\* the call: let i = 0 and the first loop test
FetchStart(tries, backoff) ==
  LoopTest([NoFetch EXCEPT !.tries = tries, !.backoff = backoff])

\* lines 56-61: the attempt of iteration i ends with ending e
AttemptEnds(f, e) ==
  IF e \in FetchBodies
    THEN [f EXCEPT !.attempts = @ + 1, !.at = "returned",
                   !.result = Body(e, f.i + 1)]
  ELSE IF SleepsAgain(f)
    THEN [f EXCEPT !.attempts = @ + 1, !.at = "sleep",
                   !.err = Error(e, f.i + 1),
                   !.sleeps = Append(@, f.backoff * (f.i + 1))]
  ELSE [f EXCEPT !.attempts = @ + 1, !.at = "threw",
                 !.result = Error(e, f.i + 1)]

\* the timer of sleep fires: the catch block ends, i++ and the loop test
SleepEnds(f) == LoopTest([f EXCEPT !.i = @ + 1, !.err = NoResult])

FetchSettled(f) == f.at \in {"returned", "threw"}

InitFetch ==
  /\ FetchIdle
  /\ ForecastIdle /\ TargetsIdle /\ IconIdle /\ LocateIdle /\ CloudIdle /\ WidgetIdle

fetchFrame == <<forecastVars, targetVars, iconVars, locateVars, cloudVars, widgetVars>>

\* fetchWithRetries(url, opts, tries, backoff) is called
CallFetch ==
  /\ fetchSt.at = "idle"
  /\ \E tries \in 0..MaxTries, backoff \in Backoffs :
       fetchSt' = FetchStart(tries, backoff)
  /\ UNCHANGED fetchFrame

\* the awaited fetch (and res.json()) settles
FetchResponds ==
  /\ fetchSt.at = "fetch"
  /\ \E e \in FetchEndings : fetchSt' = AttemptEnds(fetchSt, e)
  /\ UNCHANGED fetchFrame

\* the awaited sleep ends
SleepTimer ==
  /\ fetchSt.at = "sleep"
  /\ fetchSt' = SleepEnds(fetchSt)
  /\ UNCHANGED fetchFrame

NextFetch ==
  \/ CallFetch
  \/ FetchResponds
  \/ SleepTimer

\* a pending fetch settles and a timer fires: the browser ends a request
\* with a response or an error
SpecFetch == InitFetch /\ [][NextFetch]_vars /\ WF_vars(NextFetch)

(* ------------------------------------------------------------------ *)
(* initWidget: the initial fetch, the hourly timer, weather:config-saved *)
(* ------------------------------------------------------------------ *)
\* the place detectLocation returned
StartupPlace == "startup"

\* e.detail of a weather:config-saved event: absent, or a location
NoDetail == "nodetail"

ConfigDetails == {NoDetail, "A", "B"}

\* how an attempt of fetchWeather ends in the runs examined
RefreshEndings == {"status", "null", "object"}

\* lines 282-295: fetchWeather(lat, lon) is fetchWithRetries(url, {}, 3, 400)
fetchWeather == FetchStart(3, 400)

\* a refresh that has called fetchWeather for place and will hand label to
\* renderUI
StartedRefresh(kind, place) ==
  [kind |-> kind, place |-> place, label |-> place, fetch |-> fetchWeather,
   state |-> "fetching"]

\* lines 363, 372, 379: if (data) renderUI(data, label); a rejected
\* fetchWeather is caught (lines 362, 371, 380) and nothing is rendered
Renders(f) == f.at = "returned" /\ f.result.kind = "body" /\ f.result.what = "object"

StateAfter(f) ==
  IF ~FetchSettled(f) THEN "fetching"
  ELSE IF Renders(f) THEN "rendered"
  ELSE "nodata"

InitWidget ==
  /\ initPc = "detect"
  /\ loc = NoPlace
  /\ configured = NoPlace
  /\ refreshes = <<>>
  /\ renderLog = <<>>
  /\ locationText = ""
  /\ ForecastIdle /\ TargetsIdle /\ IconIdle /\ LocateIdle /\ CloudIdle /\ FetchIdle

widgetFrame == <<forecastVars, targetVars, iconVars, locateVars, cloudVars, fetchVars>>

\* lines 359-362: detectLocation has answered; the label is shown and the
\* initial fetch starts
Detected ==
  /\ initPc = "detect"
  /\ loc' = StartupPlace
  /\ locationText' = StartupPlace
  /\ refreshes' = <<StartedRefresh("initial", StartupPlace)>>
  /\ initPc' = "initial"
  /\ UNCHANGED <<configured, renderLog, widgetFrame>>

\* refresh k goes on from fetch record f: when fetchWeather has settled the
\* awaiting function resumes, renders the data if there is any and, for the
\* initial fetch, goes on to lines 366-381 (listener and interval)
Resume(k, f) ==
  /\ refreshes' = [refreshes EXCEPT ![k].fetch = f, ![k].state = StateAfter(f)]
  /\ IF Renders(f)
       THEN /\ renderLog' = Append(renderLog, k)
            /\ locationText' = refreshes[k].label
       ELSE UNCHANGED <<renderLog, locationText>>
  /\ initPc' = IF FetchSettled(f) /\ refreshes[k].kind = "initial"
                 THEN "listening" ELSE initPc
  /\ UNCHANGED <<loc, configured, widgetFrame>>

\* the fetch awaited by refresh k settles
RefreshResponds ==
  \E k \in 1..Len(refreshes), e \in RefreshEndings :
    /\ refreshes[k].fetch.at = "fetch"
    /\ Resume(k, AttemptEnds(refreshes[k].fetch, e))

\* the sleep awaited by refresh k ends
RefreshSleepEnds ==
  \E k \in 1..Len(refreshes) :
    /\ refreshes[k].fetch.at = "sleep"
    /\ Resume(k, SleepEnds(refreshes[k].fetch))

\* lines 376-381: the interval fires; fetchWeather(loc.lat, loc.lon)
HourlyTimer ==
  /\ initPc = "listening"
  /\ Len(refreshes) <= MaxRefreshes
  /\ refreshes' = Append(refreshes, StartedRefresh("hourly", loc))
  /\ UNCHANGED <<initPc, loc, configured, renderLog, locationText, widgetFrame>>

\* lines 366-373: the weather:config-saved listener runs with detail d
ConfigSaved(d) ==
  /\ initPc = "listening"
  /\ Len(refreshes) <= MaxRefreshes
  /\ IF d = NoDetail
       THEN UNCHANGED <<configured, locationText, refreshes>>
       ELSE /\ configured' = d
            /\ locationText' = d
            /\ refreshes' = Append(refreshes, StartedRefresh("config", d))
  /\ UNCHANGED <<initPc, loc, renderLog, widgetFrame>>

ConfigSavedEvent == \E d \in ConfigDetails : ConfigSaved(d)

NextWidget ==
  \/ Detected
  \/ RefreshResponds
  \/ RefreshSleepEnds
  \/ HourlyTimer
  \/ ConfigSavedEvent

SpecWidget == InitWidget /\ [][NextWidget]_vars

(* ------------------------------------------------------------------ *)
(* Properties of the resolver                                          *)
(* ------------------------------------------------------------------ *)
Resolved == pc = "done"

\* the day number of a date string
DayNumber(s) == DaysFromCivil(s.y, s.m, s.d)

\* C1: when some entry of dates is string-equal to the resolved today
\* string, the resolved start index is the smallest index of such an entry.
C1_ExactMatch ==
  (Resolved /\ \E i \in 1..Len(times) : times[i] = todayStr)
    => /\ startIdx \in 0..(Len(times) - 1)
       /\ times[startIdx + 1] = todayStr
       /\ \A j \in 1..startIdx : times[j] # todayStr

C1_Witness ==
  /\ Resolved
  /\ step = "exact"
  /\ startIdx >= 2
  /\ times[startIdx + 1] = todayStr

\* C2: for a non-empty dates array the resolved start index is a valid
\* index of it, whichever step of the chain produced it.
C2_ValidIndex ==
  (Resolved /\ Len(times) >= 1) => (0 <= startIdx /\ startIdx < Len(times))

C2_Witness ==
  /\ Resolved
  /\ step = "candidate"
  /\ startIdx >= 1
  /\ startIdx < Len(times)

\* the offset of the declared zone: the IANA zone's when the runtime knows
\* it, else the raw utc offset
DeclaredOffset ==
  IF apiTz \in KnownZones THEN ZoneOffset(apiTz) ELSE utcOffsetSeconds.v

HasDeclaredZone == apiTz \in KnownZones \/ utcOffsetSeconds.num

\* C7: with a declared zone the resolved today string is the calendar date
\* of (instant + zone offset), whatever the browser's offset: its midnight
\* is at most one day before the shifted instant; 2024-06-01T02:00Z at
\* UTC-10 is 2024-05-31.
C7_TodayInZone ==
  (pc # "today" /\ HasDeclaredZone)
    => /\ todayStr.kind = "ymd"
       /\ DayNumber(todayStr) * 86400 <= now.t + DeclaredOffset
       /\ now.t + DeclaredOffset < (DayNumber(todayStr) + 1) * 86400
       /\ (now.t = 19875 * 86400 + 2 * 3600 /\ DeclaredOffset = -10 * 3600)
            => todayStr = Ymd(2024, 5, 31)

C7_Witness ==
  /\ Resolved
  /\ now.t = 19875 * 86400 + 2 * 3600
  /\ apiTz = ""
  /\ utcOffsetSeconds = Num(-10 * 3600)
  /\ browserOffset = 14 * 3600
  /\ todayStr = Ymd(2024, 5, 31)

\* the dates array is what a provider sends: date strings only
WellFormed(ts) == \A i \in 1..Len(ts) : ts[i].kind = "ymd"

\* C8: with a usable provider zone, the resolved start index is the one any
\* other browser zone resolves for the same dates, instant and descriptor.
C8_BrowserIndependent ==
  (Resolved /\ HasDeclaredZone /\ WellFormed(times))
    => \A b \in BrowserOffsets :
         ResolveStartIdx(times, now, apiTz, utcOffsetSeconds, b) = startIdx

\* the date the utc offset gives, and the date the IANA zone gives
OffsetDate == yyyyMmDdWithOffset(now, utcOffsetSeconds.v, browserOffset)

ZoneDate == yyyyMmDdInZone(now, apiTz)

\* C9 as stated: whenever the IANA-derived date matched no entry (or could
\* not be derived) and a utc offset is given, a match of the offset-derived
\* date in dates becomes the start index.
C9_OffsetStepAfterNoMatch ==
  ( /\ Resolved
    /\ utcOffsetSeconds.num
    /\ (apiTz = "" \/ ~(\E i \in 1..Len(times) : times[i] = ZoneDate))
    /\ \E i \in 1..Len(times) : times[i] = OffsetDate )
    => times[startIdx + 1] = OffsetDate

\* C9 amended: the offset-derived date is the today string exactly when no
\* IANA-derived date exists (name absent or unusable) and a utc offset is
\* given, and then its match in dates is the start index; a derived IANA
\* date is the today string even when it equals no entry, and an exact
\* match is always a match of the today string.
C9_OffsetOnlyWithoutZoneDate ==
  Resolved =>
    /\ (apiTz \in KnownZones) => todayStr = ZoneDate
    /\ (apiTz \notin KnownZones /\ utcOffsetSeconds.num)
         => /\ todayStr = OffsetDate
            /\ (\E i \in 1..Len(times) : times[i] = OffsetDate)
                 => (step = "exact" /\ times[startIdx + 1] = OffsetDate)
    /\ (step = "exact") => times[startIdx + 1] = todayStr

C9_Witness ==
  /\ Resolved
  /\ apiTz \in KnownZones
  /\ utcOffsetSeconds.num
  /\ ~(\E i \in 1..Len(times) : times[i] = ZoneDate)
  /\ \E i \in 1..Len(times) : times[i] = OffsetDate
  /\ times[startIdx + 1] # OffsetDate

\* the date string of the calendar day before s
DayBefore(s) == CivilFromDays(DayNumber(s) - 1)

\* C10: a dates array whose first entry is the day before the resolved
\* today and whose second entry is the resolved today resolves to index 1.
C10_OffByOneRecovery ==
  ( /\ Resolved
    /\ Len(times) >= 2
    /\ times[2] = todayStr
    /\ times[1] = DayBefore(todayStr) )
    => startIdx = 1

C10_Witness ==
  /\ Resolved
  /\ Len(times) >= 2
  /\ times[2] = todayStr
  /\ times[1] = DayBefore(todayStr)
  /\ apiTz = "Pacific/Kiritimati"
  /\ startIdx = 1

\* the date string of an instant by the method that produced the today
\* string: the IANA zone when it yields a date, else the utc offset when one
\* is given, else the browser's local fields
SameMethodStr(date) == ComputeTodayStr(date, apiTz, utcOffsetSeconds, browserOffset)

\* the entries the loop of the per-candidate step has converted: all of them
\* when none matched, else those up to the match
CandidatesExamined == IF step = "candidate" THEN startIdx + 1 ELSE Len(times)

\* C11: the yesterday string of the off-by-one step and every candidate
\* string of the per-candidate step are derived by the method that produced
\* the today string, and so are never left without a value: also when the
\* IANA name is present but unusable.
C11_SameMethodInHeuristics ==
  (Resolved /\ WellFormed(times) /\ step \in {"candidate", "fallback"})
    => /\ Len(times) >= 2
            => ComputeYStr(now, apiTz, utcOffsetSeconds, browserOffset)
                 = SameMethodStr(Yesterday(now, browserOffset))
       /\ \A i \in 1..CandidatesExamined :
            CandidateStr(times[i], apiTz, utcOffsetSeconds, browserOffset)
              = SameMethodStr(ParseLocalMidnight(times[i], browserOffset))

(* ------------------------------------------------------------------ *)
(* Properties of the rebuild                                           *)
(* ------------------------------------------------------------------ *)
\* a buildForecastCards call has run past its first line
Called == outcome # "none" /\ daily.timeIsArray

\* card i of the container shows index startIdx + i - 1 of the latest series
ShowsLatest(i) ==
  LET idx  == startIdx + i - 1
      card == container.children[i]
  IN  /\ card.date = At(times, idx)
      /\ card.hi = TempText(daily.temperature_2m_max, idx)
      /\ card.lo = TempText(daily.temperature_2m_min, idx)
      /\ card.icon = weatherCodeToIcon(CodeAt(daily.weathercode, idx), TRUE)

\* C3: after every render the cards displayed are those of the series of
\* the most recent render: card i shows the date, high, low and condition
\* at index startIndex + i of that series.
C3_NeverStale ==
  (Called /\ outcome \in {"rebuilt", "skipped"})
    => \A i \in 1..Len(container.children) : ShowsLatest(i)

\* C4: a call whose resolved pair (startIndex, dates.length) equals the
\* pair recorded on the container changes nothing of the container, neither
\* its children nor its memo fields.
C4_IdempotentRebuild ==
  [][ ( /\ container.built
        /\ daily'.timeIsArray
        /\ container.startIdx = startIdx'
        /\ container.len = Len(times') )
      => container' = container ]_vars

C4_Witness ==
  /\ Called
  /\ outcome = "skipped"
  /\ container.startIdx = startIdx
  /\ container.len = Len(times)
  /\ Len(container.children) >= 2
  /\ ~ShowsLatest(2)

WindowSize == IF Len(times) - startIdx < maxCards THEN Len(times) - startIdx ELSE maxCards

\* C5: a rebuild appends exactly min(4, dates.length - startIndex) cards and
\* reads neither dates nor a per-day array at an index >= dates.length.
C5_BoundedWindow ==
  (Called /\ outcome \in {"rebuilt", "threw"})
    => /\ Len(container.children) = WindowSize
       /\ reads.timesMax < Len(times)
       /\ reads.parMax < Len(times)

\* C6: for an empty dates array the resolved start index is 0, no card is
\* appended and the container ends with no children, whatever it held.
C6_EmptySeries ==
  (Called /\ Len(times) = 0)
    => /\ startIdx = 0
       /\ container.children = <<>>
       /\ reads.parMax = -1

C6_Witness ==
  /\ Called
  /\ Len(times) = 0
  /\ outcome = "rebuilt"
  /\ ticks = 1
  /\ container.built
  /\ container.len = 0
  /\ container.children = <<>>

\* the short weekday name of the calendar date s itself
OwnWeekday(s) == WeekdayAt(DayNumber(s) * 86400, 0)

\* a rebuild of the latest render has run its loop
Rebuilt == Called /\ outcome \in {"rebuilt", "threw"}

\* C12: in every rebuild the first card is labelled "Today" and every later
\* card is labelled with the short weekday name of its own calendar date,
\* for every declared zone and every browser zone.
C12_DayLabels ==
  (Called /\ outcome = "rebuilt")
    => \A i \in 1..Len(container.children) :
         container.children[i].label
           = IF i = 1 THEN "Today" ELSE OwnWeekday(container.children[i].date)

\* C13: in every rebuild card i shows the date, the high, the low and the
\* condition code read at the one index startIndex + i of dates and of the
\* per-day arrays.
C13_IndexAlignment ==
  Rebuilt
    => \A i \in 1..Len(container.children) :
         /\ container.children[i].idx = startIdx + i - 1
         /\ ShowsLatest(i)

C13_Witness ==
  /\ Called
  /\ outcome = "rebuilt"
  /\ startIdx = 1
  /\ Len(container.children) = 4
  /\ container.children[3].date = times[4]
  /\ container.children[3].hi = Shown(76)
  /\ container.children[3].lo = Shown(56)
  /\ container.children[3].icon = "thunder"
  /\ container.children[3].hi # container.children[2].hi

\* the value of a per-day array at a 0-based index is null, undefined, or
\* the array is absent
Missing(arr, idx) == ~arr.present \/ idx >= Len(arr.vals) \/ ~arr.vals[idx + 1].num

\* text is the rendering of arr[idx]: the dash when the value is missing,
\* else the integer nearest to the value (in tenths), halves rounded up
RendersValue(text, arr, idx) ==
  IF Missing(arr, idx)
    THEN text = Dash
    ELSE /\ ~text.dash
         /\ 10 * text.n - 5 <= arr.vals[idx + 1].v
         /\ arr.vals[idx + 1].v < 10 * text.n + 5

\* C14: every card of a rebuild shows the dash for a high or low that is
\* null, undefined or whose array is absent, never 0 or NaN, and the rounded
\* number for a present value.
C14_MissingDataDash ==
  Rebuilt
    => \A i \in 1..Len(container.children) :
         /\ RendersValue(container.children[i].hi, daily.temperature_2m_max, startIdx + i - 1)
         /\ RendersValue(container.children[i].lo, daily.temperature_2m_min, startIdx + i - 1)

C14_Witness ==
  /\ Called
  /\ outcome = "rebuilt"
  /\ startIdx = 0
  /\ Len(container.children) >= 2
  /\ daily.temperature_2m_max.present
  /\ ~daily.temperature_2m_max.vals[2].num
  /\ container.children[2].hi = Dash
  /\ container.children[2].lo = Shown(48)

\* C15: buildForecastCards returns normally for any dates array, any
\* timezone descriptor and any per-day field.
C15_NeverThrows == outcome # "threw"

\* C16: when daily.time is not an array the build ends with an empty window:
\* no day card of an earlier series remains in the container.
C16_MissingDatesEmpty ==
  (outcome = "returned")
    => \A i \in 1..Len(container.children) : container.children[i].date.kind # "ymd"

\* C17: a build into one container changes neither the memo fields nor the
\* children of any other container, and it is skipped exactly when the
\* pair recorded on that same container equals the resolved pair, for any
\* interleaving of builds on several containers.
C17_MemoPerTarget ==
  [][ (target' # 0)
      => /\ \A id \in TargetIds \ {target'} : targets'[id] = targets[id]
         /\ (outcome' = "skipped")
              <=> ( /\ targets[target'].built
                    /\ targets[target'].startIdx = startIdx'
                    /\ targets[target'].len = Len(times') ) ]_vars

C17_Witness ==
  /\ target = 2
  /\ outcome = "skipped"
  /\ targets[1].built
  /\ targets[2].built
  /\ targets[1].startIdx # targets[2].startIdx
  /\ targets[1].len # targets[2].len

\* the category of a condition code: the WMO groups the widget lists
CategoryOf(c) ==
  IF ~c.num THEN "default"
  ELSE CASE c.v = 0 -> "clear"
         [] c.v \in {1, 2} -> "partly cloudy"
         [] c.v = 3 -> "cloudy"
         [] c.v \in {45, 48} -> "fog"
         [] c.v \in {51, 53, 55, 56, 57} -> "drizzle"
         [] c.v \in {61, 63, 65, 66, 67} -> "rain"
         [] c.v \in {71, 73, 75, 77, 85, 86} -> "snow"
         [] c.v \in {80, 81, 82} -> "showers"
         [] c.v \in {95, 96, 99} -> "thunderstorm"
         [] OTHER -> "default"

\* the icon of a category; the default category shows the partly cloudy icon
CategoryIcon(cat, day) ==
  CASE cat = "clear" -> (IF day THEN "sun" ELSE "moon")
    [] cat = "partly cloudy" -> "partly"
    [] cat = "cloudy" -> "cloud"
    [] cat = "fog" -> "fog"
    [] cat = "drizzle" -> "drizzle"
    [] cat = "rain" -> "rain"
    [] cat = "snow" -> "snow"
    [] cat = "showers" -> "rain"
    [] cat = "thunderstorm" -> "thunder"
    [] cat = "default" -> "partly"

\* C18: weatherCodeToIcon returns, for every listed code, the icon of the
\* code's category, and for every absent or unrecognized code the partly
\* cloudy icon; it returns for every input.
C18_IconTotal ==
  /\ (icon # "unset") => icon = CategoryIcon(CategoryOf(iconCode), iconIsDay)
  /\ (icon = "unset") => ENABLED MapIcon

C18_Witness ==
  /\ iconCode = NullNum
  /\ icon = "partly"

\* the order of the sources
ChainOrder == <<"saved", "navigator">> \o ProviderNames \o <<"fallback">>

\* the source yields a location
Succeeded(source) ==
  CASE source = "saved" -> saved = "valid"
    [] source = "navigator" -> navPromise = "pos"
    [] source = "fallback" -> TRUE
    [] OTHER -> \E i \in 1..Len(ProviderNames) :
                  /\ ProviderNames[i] = source
                  /\ \E k \in 1..2 : /\ k <= Len(providers[i])
                                      /\ providers[i][k] = "coords"
                                      /\ \A j \in 1..(k - 1) : providers[i][j] = "fail"

\* C19: detectLocation consults saved preference, browser geolocation, the
\* IP providers in list order and the fallback strictly in that order; every
\* source consulted before the last one failed; what it returns is the
\* result of the last source consulted, which succeeded; it always returns a
\* location, New York when every other source failed.
C19_ChainOrder ==
  /\ Len(consulted) <= Len(ChainOrder)
  /\ \A i \in 1..Len(consulted) : consulted[i] = ChainOrder[i]
  /\ \A i \in 1..(Len(consulted) - 1) : ~Succeeded(consulted[i])
  /\ (locPc = "done")
       => /\ location # NoLocation
          /\ location.source = consulted[Len(consulted)]
          /\ Succeeded(location.source)
          /\ (Len(consulted) = Len(ChainOrder)) => location = NewYork
  /\ (locPc # "done") => location = NoLocation

C19_Witness ==
  /\ locPc = "done"
  /\ saved = "badjson"
  /\ navFired = {"timeout", "success"}
  /\ navPromise = "null"
  /\ location.source = "ipinfo.io"
  /\ providers[3] = <<"fail", "coords">>
  /\ Len(consulted) = 5

\* C20: initClouds called with a null or undefined container does not
\* throw; it returns null and creates no renderer, listener, timer or
\* animation loop: the element, the instances and their loops are as before.
C20_AbsentContainer ==
  [][ (cloudCalls' # cloudCalls /\ cloudArg' = "null")
      => /\ cloudRet' = "null"
         /\ cloudEl' = cloudEl
         /\ instances' = instances
         /\ rendered' = rendered ]_vars

C20_Witness ==
  /\ cloudCalls = 1
  /\ cloudArg = "null"
  /\ cloudRet = "null"
  /\ cloudEl = FreshEl
  /\ instances = <<>>

\* the size of the window of the pair recorded on the container
RecordedWindow(c) ==
  IF c.len - c.startIdx < maxCards THEN c.len - c.startIdx ELSE maxCards

\* C24: memo and display stay consistent: whenever container._built is
\* true, the children of the container are exactly the cards of the window
\* of the recorded pair, min(4, _len - _startIdx) cards at the indices
\* _startIdx, _startIdx + 1, ..., also after a build call that ended
\* abnormally partway through.
C24_MemoDisplayConsistent ==
  container.built =>
    /\ Len(container.children) = RecordedWindow(container)
    /\ \A i \in 1..Len(container.children) :
         container.children[i].idx = container.startIdx + i - 1

\* the chain of lines 132-166 without the heuristic of lines 135-146
WithoutHeuristic(ts, today, tz, off, bo) ==
  FinalFallback(CandidateMatch(ts, FindIndex(ts, today), today, tz, off, bo))

\* C25: the off-by-one step never changes the outcome: for every dates
\* array, reference instant and timezone descriptor, the start index the
\* full chain resolves is the index the chain resolves without the
\* off-by-one heuristic.
C25_HeuristicChangesNothing ==
  Resolved =>
    startIdx = WithoutHeuristic(times, todayStr, apiTz, utcOffsetSeconds, browserOffset)

\* the heuristic was examined on an array that starts with yesterday
C25_Witness ==
  /\ Resolved
  /\ Len(times) >= 2
  /\ FindIndex(times, todayStr) = -1
  /\ times[1] = ComputeYStr(now, apiTz, utcOffsetSeconds, browserOffset)
  /\ times[1] = DayBefore(todayStr)
  /\ startIdx = 0

(* ------------------------------------------------------------------ *)
(* Properties of the refresh cycle                                    *)
(* ------------------------------------------------------------------ *)
\* C21: refreshes are strictly sequential: results are rendered in the
\* order their refreshes were started; the result of an earlier-started
\* refresh is never rendered after the result of a later-started one.
C21_RenderedInStartOrder ==
  \A a, b \in 1..Len(renderLog) : a < b => renderLog[a] < renderLog[b]

\* this step starts a refresh from the hourly interval
HourlyStarts ==
  /\ Len(refreshes') = Len(refreshes) + 1
  /\ refreshes'[Len(refreshes')].kind = "hourly"

\* C26: periodic refresh follows the configured location: once a
\* weather:config-saved event carrying a location has been handled, every
\* later periodic refresh fetches (and then renders) weather for the most
\* recently saved location, not for the location detected at startup.
C26_PeriodicFollowsConfigured ==
  [][ (HourlyStarts /\ configured # NoPlace) =>
        /\ refreshes'[Len(refreshes')].place = configured
        /\ refreshes'[Len(refreshes')].label = configured ]_vars

\* what holds of a call at every point of it, for tries >= 1
BoundedRetry(f) ==
  f.tries >= 1 =>
    /\ f.attempts <= f.tries
    /\ Len(f.sleeps) <= f.tries - 1
    /\ \A j \in 1..Len(f.sleeps) : f.sleeps[j] = f.backoff * j
    /\ f.at \in {"fetch", "sleep"} =>
         /\ f.attempts < f.tries
         /\ Len(f.sleeps) = f.attempts
    /\ f.at = "returned" =>
         /\ f.result.kind = "body"
         /\ f.result.what \in FetchBodies
         /\ f.result.attempt = f.attempts
         /\ Len(f.sleeps) = f.attempts - 1
    /\ f.at = "threw" =>
         /\ f.result.kind = "error"
         /\ f.result.what \in FetchFailures
         /\ f.result.attempt = f.tries
         /\ f.attempts = f.tries
         /\ Len(f.sleeps) = f.tries - 1

\* C22: for tries >= 1, fetchWithRetries makes at most tries attempts,
\* stops at the first attempt that succeeds and returns its parsed body,
\* sleeps backoff * (i + 1) between attempts only (never after the last),
\* and always ends: when every attempt fails it throws the error of the
\* last attempt.
C22_BoundedRetry ==
  /\ []BoundedRetry(fetchSt)
  /\ (fetchSt.at = "fetch") ~> FetchSettled(fetchSt)

\* three attempts failed, two sleeps of 400 and 800 ms, the third error thrown
C22_Witness ==
  /\ fetchSt.tries = 3
  /\ fetchSt.at = "threw"
  /\ fetchSt.sleeps = <<400, 800>>
  /\ fetchSt.result = Error("status", 3)

(* ------------------------------------------------------------------ *)
(* Properties of the cloud layer                                      *)
(* ------------------------------------------------------------------ *)
\* this step is a call initClouds(containerEl) with the container element
CallOnElement == cloudCalls' = cloudCalls + 1 /\ cloudArg' = "el"

\* C23: initClouds is idempotent: a call on a container that is already
\* initialized (no teardown in between) returns the same container and
\* creates no second canvas, overlay, listener, observer or animation loop.
C23_InitIdempotent ==
  [][ (CallOnElement /\ cloudEl.initialized) =>
        /\ cloudRet' = "el"
        /\ cloudEl' = cloudEl
        /\ instances' = instances
        /\ rendered' = rendered ]_vars

\* two calls on the element, the first built the scene, the second
\* returned the element: one instance, one canvas
C23_Witness ==
  /\ cloudLog = <<"el", "el">>
  /\ cloudRet = "el"
  /\ Len(instances) = 1
  /\ cloudEl.initialized
  /\ cloudEl.canvases = {1}
  /\ cloudEl.teardown = 1

\* this step is a call of initClouds
InitCloudsCalled == cloudCalls' = cloudCalls + 1

\* the container has been torn down and initClouds has not been called on
\* it since
TornDown == cloudEl.teardown # 0 /\ ~cloudEl.initialized

\* some instance requests a frame in this step
FrameRequested ==
  \E k \in 1..Len(instances) : instances'[k].reqId /\ ~instances[k].reqId

\* C27: teardown is final: after containerEl.__teardownClouds() has run, no
\* animation frame is requested or rendered for that container until
\* initClouds is called again, whatever events occur afterwards
\* (pointerenter, visibilitychange, intersection changes, resize).
C27_TeardownFinal ==
  [][ (TornDown /\ ~InitCloudsCalled) =>
        /\ ~FrameRequested
        /\ rendered' = rendered ]_vars

\* the instances with an animation-frame callback pending
Pending == { k \in 1..Len(instances) : instances[k].reqId }

\* a pending frame of an instance implies its running flag
PendingImpliesRunning == \A k \in Pending : instances[k].running

\* C28: single animation loop: in every reachable state at most one
\* animation-frame callback is pending for the container, across any
\* interleaving of initClouds, teardown, re-initialization, the triggers of
\* startLoop and stopLoop and the frame callbacks; and a pending frame
\* implies that running is true.
C28_SingleLoop ==
  /\ Cardinality(Pending) <= 1
  /\ PendingImpliesRunning

\* a fully constructed scene with its teardown helper is attached: the
\* helper is installed and the canvas of its scene is in the container
LiveScene(el) == el.teardown # 0 /\ el.teardown \in el.canvases

\* the last initClouds call was on the element and returned null
LastCallFailed == cloudArg = "el" /\ cloudRet = "null"

\* this initClouds call went through the initialization: it built a scene
\* or failed again
InitializationAttempted ==
  cloudRet' = "null" \/ Len(instances') = Len(instances) + 1

\* after this step the flag is set only with a live scene
FlagMeansLiveScene == cloudEl'.initialized => LiveScene(cloudEl')

\* a call on the element after a failed one goes through the initialization
RetryAfterFailure == (CallOnElement /\ LastCallFailed) => InitializationAttempted

\* C29: the initialized flag reflects a live scene: __cloudsInitialized is
\* true only while a fully constructed scene with its teardown helper is
\* attached; after an initClouds call that failed and returned null, a
\* later call on the same container attempts the initialization again
\* instead of returning the container as already initialized.
C29_FlagMeansLiveScene == [][FlagMeansLiveScene /\ RetryAfterFailure]_vars

(* ------------------------------------------------------------------ *)
(* Properties of the geolocation step                                 *)
(* ------------------------------------------------------------------ *)
\* resolve is called at most once, and once exactly when the promise holds
\* its outcome; the chain goes past the step only with that outcome
SettlesOnce ==
  /\ navSettles <= 1
  /\ (navPromise \in {"null", "pos"}) <=> (navSettles = 1)
  /\ (navPromise = "unstarted") <=> (\A i \in 1..Len(consulted) : consulted[i] # "navigator")
  /\ navDone => navSettles = 1
  /\ (locPc \in {"provider", "fallback"}) => navPromise = "null"
  /\ (locPc = "done" /\ navPromise # "unstarted")
       => (navPromise = "pos" <=> location.source = "navigator")

\* C30: the geolocation lookup settles exactly once: the browser-geolocation
\* step of detectLocation delivers exactly one outcome (a position or null)
\* under every ordering of the success callback, the error callback and the
\* safety timeout, and it always settles, by the timeout at the latest, so
\* the chain always goes on to the IP providers or returns.
C30_SettlesExactlyOnce ==
  /\ []SettlesOnce
  /\ (locPc = "awaitNav") ~> (navSettles = 1 /\ locPc \in {"provider", "done"})
  /\ <>(locPc = "done")

\* the timeout settled the promise with null, the success callback came
\* after it and was ignored
C30_Witness ==
  /\ geoPresent
  /\ navFired = {"timeout", "success"}
  /\ navPromise = "null"
  /\ navSettles = 1
  /\ locPc = "done"

====
